---- MODULE Spec2Model ----
(***************************************************************************)
(* State-machine model of the encrypted-messaging backend:                 *)
(*   - the websocket endpoint (authentication, registry, message loop),    *)
(*   - the ConnectionManager registry and its push,                        *)
(*   - the notarization worker, the manual trigger and the retry sweep,    *)
(*   - the BlockchainService adapter and the external ledger it talks to.  *)
(*                                                                         *)
(* Scheduling.  Websocket handlers and HTTP endpoints are coroutines on    *)
(* one asyncio event loop: code between two awaits runs atomically with    *)
(* respect to the other coroutines, so each handler action below spans     *)
(* the code from one await to the next.  notarize_message_async runs on    *)
(* worker threads (asyncio.to_thread, BackgroundTasks, the sweep's own     *)
(* caller), so its database and ledger calls interleave with everything.   *)
(***************************************************************************)
EXTENDS Integers, Sequences, FiniteSets, TLC

\* ------------------------------------------------------------------ bounds
MaxConns == 2        \* websocket connections opened in one run
MaxFrames == 2       \* inbound frames received in one run, over all connections
MaxExtra == 1        \* manual triggers and sweeps that start a notarize call
MaxFaults == 1       \* client disconnects and failures (database, scheduling,
                     \* ledger outage) in one run
MaxBacklog == 100    \* messages waiting with a hash already on the ledger
MaxCalls == 4        \* calls made on the Blockchain object in one run
PowPeriod == 3       \* one nonce in PowPeriod gives a hash that meets the target

\* ------------------------------------------------------- program constants
HashLen == 66        \* Field(min_length=66, max_length=66)
SweepLimit == 100    \* .limit(100) of the sweep's query
Difficulty == 4      \* Blockchain(difficulty=4)
MiningReward == 100  \* self.mining_reward

Users == {1, 2}                 \* ids of the rows of the users table
GhostUser == Cardinality(Users) + 1   \* a user id with no row in the users table
Conns == 1..MaxConns

\* ------------------------------------------------------------------ strings
\* A string is written pre \o fill^n: the characters of pre followed by n
\* copies of fill.  "0x" + "a"*64 is [pre |-> <<"0","x">>, fill |-> "a", n |-> 64].
StrLen(s) == Len(s.pre) + s.n

HashA == [pre |-> <<"0", "x">>, fill |-> "a", n |-> 64]
HashB == [pre |-> <<"0", "x">>, fill |-> "b", n |-> 64]
HashShort == [pre |-> <<"0", "x">>, fill |-> "a", n |-> 63]
HashNonHex == [pre |-> <<"z", "z">>, fill |-> "z", n |-> 64]

\* Optional values: <<>> is None / a missing field, <<v>> is the value v.
None == <<>>
Some(v) == <<v>>

\* ------------------------------------------------------------------- inputs
\* Tokens a client may present in the query string.
Tokens ==
    {<<"absent">>, <<"invalid">>} \cup {<<"valid", u>> : u \in Users \cup {GhostUser}}

Frame(p, to, payload, hash) ==
    [parse |-> p, to |-> to, payload |-> payload, hash |-> hash]

\* Text frames a client may send: well-formed ones, and one of each kind of
\* malformed frame.
InputFrames ==
    {Frame(TRUE, Some(u), Some("p1"), Some(HashA)) : u \in Users \cup {GhostUser}}
    \cup {Frame(TRUE, Some(1), Some("p1"), Some(HashShort)),
          Frame(TRUE, Some(1), Some("p1"), Some(HashNonHex)),
          Frame(TRUE, None, Some("p1"), Some(HashA)),
          Frame(TRUE, Some(1), None, Some(HashA)),
          Frame(TRUE, Some(1), Some("p1"), None),
          Frame(FALSE, None, None, None)}

PersistOutcomes == {"ok", "commit_fails", "refresh_fails"}
ScheduleOutcomes == {"ok", "fails"}

\* -------------------------------------------------------------------- state
VARIABLES
    conn,      \* per connection: handler position, token, transport state, scratch
    active,    \* manager.active_connections: dict user id -> connection
    out,       \* per connection: frames the server has written to it
    store,     \* messages table: store[id] is the row with that id
    tasks,     \* running notarize invocations (threads), in creation order
    ledger,    \* external ledger: reachability, registered hashes, unmined txs
    ready,     \* blockchain_service has its contract and account loaded
    log,       \* history: one entry per inbound frame received
    nextra,    \* manual triggers and sweeps that started a notarize call
    resp,      \* what the latest manual trigger or sweep call did and returned
    failed,    \* ids of the messages with a submission the ledger did not take
    lost,      \* ids of the messages with a reference whose commit failed
    bc,        \* the Blockchain object of blockchain.py and its latest call
    faults     \* client disconnects and failures so far

vars ==
    <<conn, active, out, store, tasks, ledger, ready, log, nextra, resp, failed, lost, faults,
      bc>>

\* ----------------------------------------------------------------- registry
\* ConnectionManager.disconnect
Disconnect(reg, u) ==
    IF u \in DOMAIN reg THEN [x \in (DOMAIN reg) \ {u} |-> reg[x]] ELSE reg

\* Variant: a registration that keeps the entry the identity already has.
RegisterUnlessPresent(reg, u, c) ==
    IF u \in DOMAIN reg THEN reg
    ELSE [x \in (DOMAIN reg) \cup {u} |-> IF x = u THEN c ELSE reg[x]]

\* manager.active_connections[user_id] = websocket
Register(reg, u, c) ==
    [x \in (DOMAIN reg) \cup {u} |-> IF x = u THEN c ELSE reg[x]]

\* ConnectionManager.is_user_online
IsUserOnline(reg, u) == u \in DOMAIN reg

\* Variant: the except clause of send_personal_message omits self.disconnect.
RegistryKeptAfterPushFailure(reg, u) == reg

\* send_personal_message, after websocket.send_json raised
RegistryAfterPushFailure(reg, u) == Disconnect(reg, u)

\* ------------------------------------------------------------ authentication
\* Variant: the token's subject is taken without looking the user up.
VerifyTokenNoLookup(token) ==
    IF token[1] = "valid" THEN Some(token[2]) ELSE None

\* verify_websocket_token: the User the token resolves to, or None.
VerifyToken(token) ==
    IF token[1] = "valid" /\ token[2] \in Users THEN Some(token[2]) ELSE None

ConnUser(c) == VerifyToken(conn[c].token)[1]

UserName(u) == <<"user", u>>

\* ------------------------------------------------------------------- frames
\* datetime.isoformat(): the text of the timestamp.
IsoFormat(ts) == <<"iso", ts>>

ConnectedFrame(u) == [type |-> "connected", user_id |-> u]
ErrorFrame(msg) == [type |-> "error", message |-> msg]
\* Variant: a delivery frame that names the target as its sender.
DeliveryFrameFromTarget(mid, u, f, ts) ==
    [type |-> "message", message_id |-> mid, from_user_id |-> f.to[1],
     from_username |-> UserName(f.to[1]), payload |-> f.payload[1],
     message_hash |-> f.hash[1], timestamp |-> IsoFormat(ts)]
DeliveryFrame(mid, u, f, ts) ==
    [type |-> "message", message_id |-> mid, from_user_id |-> u,
     from_username |-> UserName(u), payload |-> f.payload[1],
     message_hash |-> f.hash[1], timestamp |-> IsoFormat(ts)]
SentFrame(mid, to, ts) ==
    [type |-> "sent", message_id |-> mid, to_user_id |-> to, timestamp |-> IsoFormat(ts)]

\* --------------------------------------------------------------- validation
\* WebSocketMessage(**message_data): the three fields are required and the
\* hash is a string of exactly HashLen characters.
ValidHashField(h) == StrLen(h) >= HashLen /\ StrLen(h) <= HashLen

Validates(f) ==
    /\ f.to # None
    /\ f.payload # None
    /\ f.hash # None
    /\ ValidHashField(f.hash[1])

\* Variant: the loop body without its "Receiver not found" check.
ClassifyNoLookup(f, po, so) ==
    IF ~f.parse THEN "bad_json"
    ELSE IF ~Validates(f) THEN "invalid"
    ELSE IF po = "commit_fails" THEN "insert_failed"
    ELSE IF po = "refresh_fails" THEN "refresh_failed"
    ELSE IF so = "fails" THEN "schedule_failed"
    ELSE "ok"

\* How far the loop body gets with frame f, given what the insert and the
\* scheduling call do.
Classify(f, po, so) ==
    IF ~f.parse THEN "bad_json"
    ELSE IF ~Validates(f) THEN "invalid"
    ELSE IF f.to[1] \notin Users THEN "no_receiver"
    ELSE IF po = "commit_fails" THEN "insert_failed"
    ELSE IF po = "refresh_fails" THEN "refresh_failed"
    ELSE IF so = "fails" THEN "schedule_failed"
    ELSE "ok"

\* The failures among the outcomes chosen for frame f: a failure of a call
\* the loop body does not reach is not chosen.
Injected(f, po, so) ==
    LET reached == f.parse /\ Validates(f) /\ f.to[1] \in Users
    IN  IF ~reached THEN (IF po = "ok" /\ so = "ok" THEN 0 ELSE MaxFaults + 1)
        ELSE IF po # "ok" THEN (IF so = "ok" THEN 1 ELSE MaxFaults + 1)
        ELSE IF so # "ok" THEN 1 ELSE 0

\* db.commit() was reached and succeeded.
Persisted(res) == res \in {"refresh_failed", "schedule_failed", "ok"}
\* Variant: create_task placed before db.commit().
ScheduledBeforeInsert(res) == res \in {"insert_failed", "refresh_failed", "ok"}

\* asyncio.create_task(...) was reached and succeeded.
Scheduled(res) == res = "ok"
\* manager.send_personal_message is called.
Pushes(res, online) == res = "ok" /\ online
\* Variant: the insert's exception is swallowed and the body carries on.
AcksAfterFailedInsert(res) == res \in {"insert_failed", "ok"}

\* the `sent` send_json is reached.
Acks(res) == res = "ok"

ErrorText(res) ==
    CASE res = "bad_json" -> "Invalid JSON format"
      [] res = "no_receiver" -> "Receiver not found"
      [] OTHER -> "Error processing message"

\* Variant: sender_id taken from the frame instead of the authenticated user.
NewMessageSenderFromFrame(u, f, ts) ==
    [sender |-> f.to[1], receiver |-> f.to[1], payload |-> f.payload[1],
     hash |-> f.hash[1], tx |-> None, timestamp |-> ts]

\* Message(sender_id=..., receiver_id=..., encrypted_payload=..., message_hash=...)
NewMessage(u, f, ts) ==
    [sender |-> u, receiver |-> f.to[1], payload |-> f.payload[1],
     hash |-> f.hash[1], tx |-> None, timestamp |-> ts]

\* The id the database gives the next row (integer primary key).
NextId(st) == Len(st) + 1

\* Variant: an insert that drops a row whose content is already stored.
InsertUnlessSameContent(st, row) ==
    IF \E i \in DOMAIN st : [st[i] EXCEPT !.tx = None, !.timestamp = 0]
                              = [row EXCEPT !.tx = None, !.timestamp = 0]
    THEN st ELSE Append(st, row)

\* db.add(new_message); db.commit()
Insert(st, row) == Append(st, row)

\* ------------------------------------------------------------------- tasks
InlineTask(mid) ==
    [kind |-> "inline", pc |-> "load", queue |-> <<mid>>, h |-> None,
     tx |-> None, cached |-> FALSE]

\* -------------------------------------------------------------- blockchain
\* blockchain.py.  A SHA-256 digest is written [lead, of]: `of` is the text
\* that was hashed (two texts have the same digest only if they are the same
\* text) and `lead` is the number of leading "0" characters of the digest, a
\* fixed function of the text.
Addresses == {"Alice", "Bob", "Miner1"}
Amounts == {-50, 0, 25, 50}

RECURSIVE SumAmounts(_)
SumAmounts(txs) ==
    IF txs = <<>> THEN 0 ELSE Head(txs).amount + SumAmounts(Tail(txs))

\* json.dumps({...}, sort_keys=True) of the five hashed fields.
BlockString(b) == <<b.index, b.previous_hash, b.nonce, b.timestamp, b.transactions>>

Lead(text) ==
    LET r == (text[1] + text[3] + text[4] + Len(text[5]) + SumAmounts(text[5])) % PowPeriod
    IN  IF r = 0 THEN Difficulty ELSE r - 1

\* Block.calculate_hash
CalculateHash(b) == [lead |-> Lead(BlockString(b)), of |-> BlockString(b)]

\* block.hash[:difficulty] == "0" * difficulty
MeetsTarget(h) == h.lead >= Difficulty

\* Block.__init__
Block(index, timestamp, transactions, previous_hash) ==
    LET b == [index |-> index, timestamp |-> timestamp, transactions |-> transactions,
              previous_hash |-> previous_hash, nonce |-> 0, hash |-> <<>>]
    IN  [b EXCEPT !.hash = CalculateHash(b)]

\* Blockchain.mine_block: the block with the nonce and hash the loop ends with.
RECURSIVE MineBlock(_)
MineBlock(b) ==
    IF MeetsTarget(b.hash) THEN b
    ELSE MineBlock([b EXCEPT !.nonce = @ + 1,
                             !.hash = CalculateHash([b EXCEPT !.nonce = @ + 1])])

\* The previous_hash "0" of the genesis block.
GenesisPrevious == [lead |-> 1, of |-> <<>>]

\* Blockchain.__init__ and create_genesis_block, at time 0.
BlockchainCall(op, sender, recipient, amount, ret) ==
    [op |-> op, sender |-> sender, recipient |-> recipient, amount |-> amount, ret |-> ret]

NoBlockchainCall == BlockchainCall("none", "", "", 0, TRUE)

NewBlockchain ==
    [chain |-> <<MineBlock(Block(0, 0, <<>>, GenesisPrevious))>>,
     pending |-> <<>>, clock |-> 1, calls |-> 0, last |-> NoBlockchainCall,
     mined |-> <<MineBlock(Block(0, 0, <<>>, GenesisPrevious))>>]

Transaction(sender, recipient, amount, timestamp) ==
    [sender |-> sender, recipient |-> recipient, amount |-> amount, timestamp |-> timestamp]

\* Variant: add_transaction without its check of the amount.
RejectsAmountNever(amount) == FALSE
\* `if amount <= 0: return False`
RejectsAmount(amount) == amount <= 0

\* Variant: mine_pending_transactions without its check of the pending list.
NoPendingNever(pending) == FALSE
\* `if not self.pending_transactions: return False`
NoPending(pending) == pending = <<>>

\* Variant: the reward is taken from the miner's own address.
RewardFromMiner(miner_address, timestamp) ==
    [sender |-> miner_address, recipient |-> miner_address, amount |-> MiningReward,
     timestamp |-> timestamp]

\* The reward transaction that replaces the pending list after a block.
RewardTransaction(miner_address, timestamp) ==
    Transaction("network", miner_address, MiningReward, timestamp)

\* The loop body of get_balance over one list of transactions.
RECURSIVE TxsBalance(_, _)
TxsBalance(txs, address) ==
    IF txs = <<>> THEN 0
    ELSE (IF Head(txs).recipient = address THEN Head(txs).amount ELSE 0)
         - (IF Head(txs).sender = address THEN Head(txs).amount ELSE 0)
         + TxsBalance(Tail(txs), address)

RECURSIVE ChainBalance(_, _)
ChainBalance(chain, address) ==
    IF chain = <<>> THEN 0
    ELSE TxsBalance(Head(chain).transactions, address) + ChainBalance(Tail(chain), address)

\* Variant: get_balance over the mined blocks only.
GetBalanceMinedOnly(chain, pending, address) == ChainBalance(chain, address)
\* Blockchain.get_balance
GetBalance(chain, pending, address) ==
    ChainBalance(chain, address) + TxsBalance(pending, address)

\* Variant: the new block linked to the first block of the chain.
GetFirstBlock(chain) == chain[1]
\* Blockchain.get_latest_block
GetLatestBlock(chain) == chain[Len(chain)]

\* Blockchain.is_chain_valid: `for i in range(1, len(self.chain))`, which is
\* positions 2..Len(chain) here.
IsChainValid(chain) ==
    \A i \in 2..Len(chain) :
        /\ chain[i].hash = CalculateHash(chain[i])
        /\ chain[i].previous_hash = chain[i - 1].hash
        /\ MeetsTarget(chain[i].hash)

\* ------------------------------------------------------------------- calls
\* The record of a manual trigger or sweep call: its arguments, what it
\* returned (status, tx_hash), the rows the sweep's query returned, and the
\* fault count, ledger reachability and running notarize calls it started
\* with.
Call(op, u, m, status, tx, batch) ==
    [op |-> op, user |-> u, mid |-> m, status |-> status, tx |-> tx,
     batch |-> batch, faults |-> faults, up |-> ledger.up, idle |-> tasks = <<>>]

NoCall ==
    [op |-> "none", user |-> 0, mid |-> 0, status |-> "none", tx |-> None,
     batch |-> <<>>, faults |-> 0, up |-> TRUE, idle |-> TRUE]

\* --------------------------------------------------------------------- Init
\* A connection before it is opened.  mid, target, ts, dm, pushTo and entry
\* are the loop body's locals (new_message, receiver_id, delivery_message,
\* the websocket send_personal_message looked up); delivered is what
\* send_personal_message returned.
IdleConn ==
    [pc |-> "none", token |-> <<"absent">>, alive |-> FALSE, mid |-> 0,
     target |-> 0, ts |-> 0, dm |-> None, pushTo |-> 0, res |-> "none",
     entry |-> 0]

InitWith(r) ==
    /\ conn = [c \in Conns |-> IdleConn]
    /\ active = <<>>
    /\ out = [c \in Conns |-> <<>>]
    /\ store = <<>>
    /\ tasks = <<>>
    /\ ledger = [up |-> TRUE, registered |-> {}, pending |-> {}, ntx |-> 0]
    /\ ready = r
    /\ log = <<>>
    /\ nextra = 0
    /\ resp = NoCall
    /\ failed = {}
    /\ faults = 0
    /\ lost = {}
    /\ bc = NewBlockchain

\* -------------------------------------------------------------- connections
\* A client opens connection c with a token; the server accepts it.
Connect(c, token) ==
    /\ conn[c].pc = "none"
    /\ \A d \in Conns : d < c => conn[d].pc # "none"
    /\ conn' = [conn EXCEPT ![c] = [IdleConn EXCEPT !.pc = "accepted",
                                     !.token = token, !.alive = TRUE]]
    /\ UNCHANGED <<active, out, store, tasks, ledger, ready, log, nextra, resp, failed, faults,
                   lost, bc>>

\* The client side of connection c goes away.
ClientClose(c) ==
    /\ conn[c].pc \notin {"none", "rejected", "closed"}
    /\ conn[c].alive
    /\ faults < MaxFaults
    /\ faults' = faults + 1
    /\ conn' = [conn EXCEPT ![c].alive = FALSE]
    /\ UNCHANGED <<active, out, store, tasks, ledger, ready, log, nextra, resp, failed, lost, bc>>

\* The handler has returned; the server closes the socket.
Rejected(r) == [IdleConn EXCEPT !.pc = "rejected"]
Closed(r) == [IdleConn EXCEPT !.pc = "closed"]
\* The handler is back at receive_text.
Looping(r) == [IdleConn EXCEPT !.pc = "loop", !.token = r.token, !.alive = r.alive]

\* Token extraction and verification, registration in the manager.
Authenticate(c) ==
    /\ conn[c].pc = "accepted"
    /\ IF conn[c].token = <<"absent">>
       THEN /\ out' = IF conn[c].alive
                      THEN [out EXCEPT ![c] = Append(@, ErrorFrame("Authentication token required"))]
                      ELSE out
            /\ conn' = [conn EXCEPT ![c] = Rejected(@)]
            /\ UNCHANGED active
       ELSE IF VerifyToken(conn[c].token) = None
       THEN /\ conn' = [conn EXCEPT ![c] = Rejected(@)]
            /\ UNCHANGED <<active, out>>
       ELSE /\ active' = Register(active, ConnUser(c), c)
            /\ conn' = [conn EXCEPT ![c].pc = "welcome"]
            /\ UNCHANGED out
    /\ UNCHANGED <<store, tasks, ledger, ready, log, nextra, resp, failed, faults, lost, bc>>

\* The `connected` send_json.  If it raises, the exception leaves the handler
\* through the outer try (which has only a finally): no manager.disconnect.
Welcome(c) ==
    /\ conn[c].pc = "welcome"
    /\ IF conn[c].alive
       THEN /\ out' = [out EXCEPT ![c] = Append(@, ConnectedFrame(ConnUser(c)))]
            /\ conn' = [conn EXCEPT ![c] = Looping(@)]
       ELSE /\ conn' = [conn EXCEPT ![c] = Closed(@)]
            /\ UNCHANGED out
    /\ UNCHANGED <<active, store, tasks, ledger, ready, log, nextra, resp, failed, faults,
                   lost, bc>>

\* receive_text raises WebSocketDisconnect: manager.disconnect(user_id).
RecvDisconnect(c) ==
    /\ conn[c].pc = "loop"
    /\ ~conn[c].alive
    /\ active' = Disconnect(active, ConnUser(c))
    /\ conn' = [conn EXCEPT ![c] = Closed(@)]
    /\ UNCHANGED <<out, store, tasks, ledger, ready, log, nextra, resp, failed, faults, lost, bc>>

\* ------------------------------------------------------------- message loop
\* Variant: a handler that reads the next frame while the `sent` reply of
\* the previous one is still to be written.
AtReceiveOrReplying(r) == r.pc \in {"loop", "ack"}

\* The handler is at `await websocket.receive_text()`.
AtReceive(r) == r.pc = "loop"

\* receive_text returns frame f; the loop body runs up to its first await:
\* parse, validate, look the receiver up, insert, schedule notarization,
\* build delivery_message, test is_user_online and, if online, enter
\* send_personal_message (which looks the websocket up).
Recv(c, f, po, so) ==
    /\ AtReceive(conn[c])
    /\ conn[c].alive
    /\ Len(log) < MaxFrames
    /\ faults + Injected(f, po, so) <= MaxFaults
    /\ faults' = faults + Injected(f, po, so)
    /\ LET res == Classify(f, po, so)
           u == ConnUser(c)
           mid == NextId(store)
           looked == res \notin {"bad_json", "invalid"}
           online == looked /\ IsUserOnline(active, f.to[1])
       IN  /\ store' = IF Persisted(res) THEN Insert(store, NewMessage(u, f, mid)) ELSE store
           /\ tasks' = IF Scheduled(res) THEN Append(tasks, InlineTask(mid)) ELSE tasks
           /\ conn' = [conn EXCEPT ![c] =
                  IF Pushes(res, online)
                  THEN [@ EXCEPT !.pc = "push", !.mid = mid, !.target = f.to[1], !.ts = mid,
                                 !.dm = Some(DeliveryFrame(mid, u, f, mid)),
                                 !.pushTo = active[f.to[1]], !.res = res,
                                 !.entry = Len(log) + 1]
                  ELSE IF Acks(res)
                  THEN [@ EXCEPT !.pc = "ack", !.mid = mid, !.target = f.to[1], !.ts = mid,
                                 !.res = res, !.entry = Len(log) + 1]
                  ELSE [@ EXCEPT !.pc = "err", !.res = res]]
           /\ log' = Append(log, [conn |-> c, token |-> conn[c].token, frame |-> f,
                                  po |-> po, so |-> so, res |-> res, online |-> online,
                                  pushed |-> Pushes(res, online), delivered |-> "none",
                                  mid |-> IF Persisted(res) THEN mid ELSE 0])
    /\ UNCHANGED <<active, out, ledger, ready, nextra, resp, failed, lost, bc>>

\* Variant: the loop body awaits the notarization it has started.
AwaitsNotarization(c) ==
    \A t \in DOMAIN tasks :
        ~(tasks[t].kind = "inline" /\ Head(tasks[t].queue) = conn[c].mid)

\* asyncio.create_task(...) returns at once: the loop body goes on to the
\* push and the `sent` reply whatever the notarization thread is doing.
GoesOn(c) == TRUE

\* send_personal_message: websocket.send_json on the channel looked up when
\* the push began; on an exception, self.disconnect(user_id), return False.
Push(c) ==
    /\ conn[c].pc = "push"
    /\ GoesOn(c)
    /\ LET ws == conn[c].pushTo
       IN  IF conn[ws].alive
           THEN /\ out' = [out EXCEPT ![ws] = Append(@, conn[c].dm[1])]
                /\ conn' = [conn EXCEPT ![c].pc = "ack", ![c].res = "pushed"]
                /\ log' = [log EXCEPT ![conn[c].entry].delivered = "yes"]
                /\ UNCHANGED active
           ELSE /\ active' = RegistryAfterPushFailure(active, conn[c].target)
                /\ conn' = [conn EXCEPT ![c].pc = "ack", ![c].res = "push_failed"]
                /\ log' = [log EXCEPT ![conn[c].entry].delivered = "failed"]
                /\ UNCHANGED out
    /\ UNCHANGED <<store, tasks, ledger, ready, nextra, resp, failed, faults, lost, bc>>

\* A send_json on the handler's own websocket raised inside the loop body:
\* the except clause's own send_json raises too, the outer handler runs
\* manager.disconnect(user_id) and the handler ends.
OwnSendFailed(c) ==
    /\ active' = Disconnect(active, ConnUser(c))
    /\ conn' = [conn EXCEPT ![c] = Closed(@)]
    /\ UNCHANGED out

\* The `sent` confirmation to the sender.
Ack(c) ==
    /\ conn[c].pc = "ack"
    /\ GoesOn(c)
    /\ IF conn[c].alive
       THEN /\ out' = [out EXCEPT ![c] = Append(@,
                         SentFrame(conn[c].mid, conn[c].target, conn[c].ts))]
            /\ conn' = [conn EXCEPT ![c] = Looping(@)]
            /\ UNCHANGED active
       ELSE OwnSendFailed(c)
    /\ UNCHANGED <<store, tasks, ledger, ready, log, nextra, resp, failed, faults, lost, bc>>

\* The `error` frame of the three error paths of the loop body.
Err(c) ==
    /\ conn[c].pc = "err"
    /\ IF conn[c].alive
       THEN /\ out' = [out EXCEPT ![c] = Append(@, ErrorFrame(ErrorText(conn[c].res)))]
            /\ conn' = [conn EXCEPT ![c] = Looping(@)]
            /\ UNCHANGED active
       ELSE OwnSendFailed(c)
    /\ UNCHANGED <<store, tasks, ledger, ready, log, nextra, resp, failed, faults, lost, bc>>

\* ------------------------------------------------------------ notarization
\* Variant: an exception of a notarize call leaves the sweep's loop.
FinishCaller(ts, t, cached) == SubSeq(ts, 1, t - 1) \o SubSeq(ts, t + 1, Len(ts))

\* The thread ends, or the sweep's loop moves on to its next message.
Finish(ts, t, cached) ==
    IF Len(ts[t].queue) > 1
    THEN [ts EXCEPT ![t] = [@ EXCEPT !.pc = "load", !.queue = Tail(@), !.h = None,
                                     !.tx = None, !.cached = cached]]
    ELSE SubSeq(ts, 1, t - 1) \o SubSeq(ts, t + 1, Len(ts))

\* message.blockchain_tx_hash as the task's session sees it: a row the
\* session loaded earlier and has not expired keeps the value it was loaded
\* with (the sweep's query loaded rows whose reference was NULL).
SeenTx(task, row) == IF task.cached THEN None ELSE row.tx

\* Variant: notarize without its return for a message that has a reference.
StopsEarlyIfAbsent(task, st, m) == m \notin DOMAIN st

\* `if not message: return` and `if message.blockchain_tx_hash: return`
StopsEarly(task, st, m) ==
    IF m \notin DOMAIN st THEN TRUE ELSE SeenTx(task, st[m]) # None

\* notarize_message_async: the query and the two early returns.
NLoad(t) ==
    /\ t \in DOMAIN tasks
    /\ tasks[t].pc = "load"
    /\ LET m == Head(tasks[t].queue)
       IN  tasks' = IF StopsEarly(tasks[t], store, m)
                    THEN Finish(tasks, t, tasks[t].cached)
                    ELSE [tasks EXCEPT ![t].pc = "register", ![t].h = Some(store[m].hash)]
    /\ UNCHANGED <<conn, active, out, store, ledger, ready, log, nextra, resp, failed, faults,
                   lost, bc>>

\* BlockchainService.verify_hash: False without a contract and on any
\* exception, else the contract's answer.
VerifyHash(h) == ready /\ ledger.up /\ h \in ledger.registered

\* Variant: register_hash without its check of the registration state.
SkipsWithoutContract(h) == ~ready

\* register_hash up to its "already registered" return.
SkipsSubmission(h) == ~ready \/ VerifyHash(h)

NRegister(t) ==
    /\ t \in DOMAIN tasks
    /\ tasks[t].pc = "register"
    /\ tasks' = IF SkipsSubmission(tasks[t].h[1])
                THEN Finish(tasks, t, tasks[t].cached)
                ELSE [tasks EXCEPT ![t].pc = "send"]
    /\ UNCHANGED <<conn, active, out, store, ledger, ready, log, nextra, resp, failed, faults,
                   lost, bc>>

\* register_hash: nonce, build, sign, send_raw_transaction.  Any exception
\* (the node is unreachable) returns None.
NSend(t) ==
    /\ t \in DOMAIN tasks
    /\ tasks[t].pc = "send"
    /\ IF ledger.up
       THEN LET tx == ledger.ntx + 1
            IN  /\ ledger' = [ledger EXCEPT !.ntx = tx,
                                 !.pending = @ \cup {[tx |-> tx, h |-> tasks[t].h[1]]}]
                /\ tasks' = [tasks EXCEPT ![t].pc = "write", ![t].tx = Some(tx)]
                /\ UNCHANGED failed
       ELSE /\ tasks' = Finish(tasks, t, tasks[t].cached)
            /\ failed' = failed \cup {Head(tasks[t].queue)}
            /\ UNCHANGED ledger
    /\ UNCHANGED <<conn, active, out, store, ready, log, nextra, resp, faults, lost, bc>>

\* Variant: the write-back also stamps the row with a new timestamp.
WriteBackAndTouch(st, m, tx) == [st EXCEPT ![m].tx = tx, ![m].timestamp = 0]

\* message.blockchain_tx_hash = tx_hash; db.commit()
WriteBack(st, m, tx) == [st EXCEPT ![m].tx = tx]

\* The write-back; when the commit raises, db.rollback().
NWrite(t, ok) ==
    /\ t \in DOMAIN tasks
    /\ tasks[t].pc = "write"
    /\ IF ok
       THEN /\ store' = WriteBack(store, Head(tasks[t].queue), tasks[t].tx)
            /\ UNCHANGED <<faults, lost>>
       ELSE /\ faults < MaxFaults
            /\ faults' = faults + 1
            /\ lost' = lost \cup {Head(tasks[t].queue)}
            /\ UNCHANGED store
    /\ tasks' = Finish(tasks, t, FALSE)
    /\ UNCHANGED <<conn, active, out, ledger, ready, log, nextra, resp, failed, bc>>

\* The ledger mines a submitted transaction: registerHash registers the hash
\* unless it is registered already.
Mine(p) ==
    /\ p \in ledger.pending
    /\ ledger' = [ledger EXCEPT !.pending = @ \ {p}, !.registered = @ \cup {p.h}]
    /\ UNCHANGED <<conn, active, out, store, tasks, ready, log, nextra, resp, failed, faults,
                   lost, bc>>

LedgerDown ==
    /\ ledger.up
    /\ faults < MaxFaults
    /\ faults' = faults + 1
    /\ ledger' = [ledger EXCEPT !.up = FALSE]
    /\ UNCHANGED <<conn, active, out, store, tasks, ready, log, nextra, resp, failed, lost, bc>>

LedgerUp ==
    /\ ~ledger.up
    /\ ledger' = [ledger EXCEPT !.up = TRUE]
    /\ UNCHANGED <<conn, active, out, store, tasks, ready, log, nextra, resp, failed, faults,
                   lost, bc>>

\* POST /notarize/{message_id} by user u: 404, 403, "already notarized", or
\* background_tasks.add_task(notarize_message_async, message.id, db).
\* Variant: the trigger without its "already notarized" return.
TriggerStartsAnchoredToo(u, m) ==
    /\ m \in DOMAIN store
    /\ store[m].sender = u

TriggerStarts(u, m) ==
    /\ m \in DOMAIN store
    /\ store[m].sender = u
    /\ store[m].tx = None

TriggerStatus(u, m) ==
    IF m \notin DOMAIN store THEN "not_found"
    ELSE IF store[m].sender # u THEN "forbidden"
    ELSE IF store[m].tx # None THEN "already_notarized"
    ELSE "started"

\* The tx_hash of the response body.
TriggerTx(u, m) ==
    IF TriggerStatus(u, m) = "already_notarized" THEN store[m].tx ELSE None

ManualTrigger(u, m) ==
    /\ nextra < MaxExtra
    /\ resp' = Call("trigger", u, m, TriggerStatus(u, m), TriggerTx(u, m), <<>>)
    /\ IF TriggerStarts(u, m)
       THEN /\ tasks' = Append(tasks, [InlineTask(m) EXCEPT !.kind = "manual"])
            /\ nextra' = nextra + 1
       ELSE UNCHANGED <<tasks, nextra>>
    /\ UNCHANGED <<conn, active, out, store, ledger, ready, log, failed, faults, lost, bc>>

\* ------------------------------------------------------------------ lookups
\* What GET /verify and GET /hash-info leave in resp: the status code, the
\* `verified` or `registered` field of the body, and whether the handler
\* called the ledger client.
Lookup(op, u, m, code, answer, asked) ==
    [op |-> op, user |-> u, mid |-> m, status |-> "answered", tx |-> None, batch |-> <<>>,
     faults |-> faults, up |-> ledger.up, idle |-> tasks = <<>>,
     code |-> code, answer |-> answer, asked |-> asked]

\* Variant: the lookups without their check of the caller.
MayReadAlways(u, row) == TRUE

\* message.sender_id != current_user.id and message.receiver_id != current_user.id
MayRead(u, row) == row.sender = u \/ row.receiver = u

\* BlockchainService.get_hash_info: None without a contract and on any
\* exception, else the contract's answer (of which `registered` is kept).
GetHashInfo(h) ==
    IF ~ready \/ ~ledger.up THEN None ELSE Some(h \in ledger.registered)

\* GET /verify/{message_id} by user u.
VerifyMessage(u, m) ==
    /\ resp' = IF m \notin DOMAIN store THEN Lookup("verify", u, m, 404, None, FALSE)
               ELSE IF ~MayRead(u, store[m]) THEN Lookup("verify", u, m, 403, None, FALSE)
               ELSE Lookup("verify", u, m, 200, Some(VerifyHash(store[m].hash)), TRUE)
    /\ UNCHANGED <<conn, active, out, store, tasks, ledger, ready, log, nextra, failed, lost,
                   faults, bc>>

\* GET /hash-info/{message_id} by user u.  The HTTPException(503) for a
\* missing answer is raised inside the try block, whose `except Exception`
\* catches it and raises the 500 instead.
HashInfoMessage(u, m) ==
    /\ resp' = IF m \notin DOMAIN store THEN Lookup("hash_info", u, m, 404, None, FALSE)
               ELSE IF ~MayRead(u, store[m]) THEN Lookup("hash_info", u, m, 403, None, FALSE)
               ELSE IF GetHashInfo(store[m].hash) = None
               THEN Lookup("hash_info", u, m, 500, None, TRUE)
               ELSE Lookup("hash_info", u, m, 200, GetHashInfo(store[m].hash), TRUE)
    /\ UNCHANGED <<conn, active, out, store, tasks, ledger, ready, log, nextra, failed, lost,
                   faults, bc>>

\* batch_notarize_messages(message_ids): notarize is called for each id in
\* turn, each call with a session of its own.  The caller chooses the ids.
GhostMessage == MaxFrames + 1    \* an id with no row in the messages table

Batches == {<<GhostMessage>>, <<GhostMessage, 1>>}

BatchNotarize(ids) ==
    /\ nextra < MaxExtra
    /\ nextra' = nextra + 1
    /\ tasks' = Append(tasks, [kind |-> "batch", pc |-> "load", queue |-> ids, h |-> None,
                               tx |-> None, cached |-> FALSE])
    /\ resp' = Call("batch", 0, 0, "started", None, ids)
    /\ UNCHANGED <<conn, active, out, store, ledger, ready, log, failed, lost, faults, bc>>

\* Variant: the sweep's query without its filter on blockchain_tx_hash.
UnanchoredUnfiltered(st, i) == [k \in 1..(Len(st) - i + 1) |-> k + i - 1]

\* The ids of the rows the sweep's query returns.
RECURSIVE Unanchored(_, _)
Unanchored(st, i) ==
    IF i > Len(st) THEN <<>>
    ELSE (IF st[i].tx = None THEN <<i>> ELSE <<>>) \o Unanchored(st, i + 1)

SweepBatch(st) ==
    LET all == Unanchored(st, 1)
    IN  IF Len(all) > SweepLimit THEN SubSeq(all, 1, SweepLimit) ELSE all

SweepTask(st) ==
    [kind |-> "sweep", pc |-> "load", queue |-> SweepBatch(st), h |-> None,
     tx |-> None, cached |-> TRUE]

\* retry_failed_notarizations: the query, and the return when it finds no
\* row; the loop is the task's steps.
StartSweep ==
    /\ nextra < MaxExtra
    /\ resp' = Call("sweep", 0, 0, "swept", None, SweepBatch(store))
    /\ IF SweepBatch(store) # <<>>
       THEN /\ tasks' = Append(tasks, SweepTask(store))
            /\ nextra' = nextra + 1
       ELSE UNCHANGED <<tasks, nextra>>
    /\ UNCHANGED <<conn, active, out, store, ledger, ready, log, failed, faults, lost, bc>>

\* ------------------------------------------------------- blockchain calls
MessagingVars ==
    <<conn, active, out, store, tasks, ledger, ready, log, nextra, resp, failed, lost, faults>>

\* Blockchain.add_transaction
AddTransaction(sender, recipient, amount) ==
    /\ bc.calls < MaxCalls
    /\ bc' = IF RejectsAmount(amount)
             THEN [bc EXCEPT !.calls = @ + 1,
                             !.last = BlockchainCall("add_transaction", sender, recipient,
                                                     amount, FALSE)]
             ELSE [bc EXCEPT !.pending = Append(@, Transaction(sender, recipient, amount,
                                                               bc.clock)),
                             !.clock = @ + 1,
                             !.calls = @ + 1,
                             !.last = BlockchainCall("add_transaction", sender, recipient,
                                                     amount, TRUE)]
    /\ UNCHANGED MessagingVars

\* Blockchain.mine_pending_transactions
MinePendingTransactions(miner_address) ==
    /\ bc.calls < MaxCalls
    /\ bc' = IF NoPending(bc.pending)
             THEN [bc EXCEPT !.calls = @ + 1,
                             !.last = BlockchainCall("mine_pending_transactions", "",
                                                     miner_address, 0, FALSE)]
             ELSE LET block == MineBlock(Block(Len(bc.chain), bc.clock, bc.pending,
                                               GetLatestBlock(bc.chain).hash))
                  IN  [bc EXCEPT !.chain = Append(@, block),
                                 !.mined = Append(@, block),
                                 !.pending = <<RewardTransaction(miner_address, bc.clock + 1)>>,
                                 !.clock = @ + 2,
                                 !.calls = @ + 1,
                                 !.last = BlockchainCall("mine_pending_transactions", "",
                                                         miner_address, 0, TRUE)]
    /\ UNCHANGED MessagingVars

\* A write to a field of a block that is already in the chain, as in
\* `blockchain.chain[1].transactions[0]["amount"] = 100`; the block is not
\* mined again.
OtherDigest == [lead |-> 0, of |-> <<>>]

TamperedBlock(b, field, j, v) ==
    CASE field = "amount" -> [b EXCEPT !.transactions[j].amount = v]
      [] field = "timestamp" -> [b EXCEPT !.timestamp = @ + 1]
      [] field = "previous_hash" ->
            [b EXCEPT !.previous_hash = IF @ = GenesisPrevious THEN OtherDigest
                                        ELSE GenesisPrevious]

TamperFields == {"amount", "timestamp", "previous_hash"}

Tamper(i, field, j, v) ==
    /\ bc.calls < MaxCalls
    /\ i \in 1..Len(bc.chain)
    /\ field = "amount" => /\ j \in 1..Len(bc.chain[i].transactions)
                           /\ bc.chain[i].transactions[j].amount # v
    /\ field # "amount" => j = 1 /\ v = MiningReward
    /\ bc' = [bc EXCEPT !.chain[i] = TamperedBlock(@, field, j, v),
                        !.calls = @ + 1,
                        !.last = BlockchainCall("tamper", field, "", i - 1, TRUE)]
    /\ UNCHANGED MessagingVars

\* ------------------------------------------------------------ specifications
HandlerStep(c) ==
    \/ Authenticate(c)
    \/ Welcome(c)
    \/ Push(c)
    \/ Ack(c)

\* The delivery path: every kind of token and frame, client disconnects, and
\* failures of the insert and of the scheduling call.  Notarization threads
\* are created and do not run.
Init == InitWith(TRUE)

Next ==
    \/ \E c \in Conns, t \in Tokens : Connect(c, t)
    \/ \E c \in Conns : ClientClose(c)
    \/ \E c \in Conns : HandlerStep(c)
    \/ \E c \in Conns : RecvDisconnect(c)
    \/ \E c \in Conns, f \in InputFrames, po \in PersistOutcomes,
          so \in ScheduleOutcomes : Recv(c, f, po, so)
    \/ \E c \in Conns : Err(c)

Spec == Init /\ [][Next]_vars

\* The notarization path: one sender whose frames are well formed, the
\* threads, the manual trigger, the sweep and the ledger.
NotaryFrames == {Frame(TRUE, Some(2), Some("p1"), Some(h)) : h \in {HashA, HashB}}

NotarySender == <<"valid", 1>>

InitNotary == \E r \in BOOLEAN : InitWith(r)

NotaryStep ==
    \/ \E t \in 1..(MaxFrames + MaxExtra) : NLoad(t) \/ NRegister(t) \/ NSend(t)
    \/ \E t \in 1..(MaxFrames + MaxExtra), ok \in BOOLEAN : NWrite(t, ok)
    \/ \E p \in ledger.pending : Mine(p)

NextNotary ==
    \/ Connect(1, NotarySender)
    \/ Authenticate(1)
    \/ Welcome(1)
    \/ \E f \in NotaryFrames : Recv(1, f, "ok", "ok")
    \/ Ack(1)
    \/ NotaryStep
    \/ LedgerDown
    \/ LedgerUp
    \/ \E u \in Users, m \in 1..MaxFrames : ManualTrigger(u, m)
    \/ StartSweep
    \/ \E ids \in Batches : BatchNotarize(ids)

NotarySpec == InitNotary /\ [][NextNotary]_vars

\* The inline notarization next to the delivery: one sender whose frames are
\* well formed and go to itself or to a user who is not connected, the
\* threads and the ledger.
InlineFrames ==
    {Frame(TRUE, Some(to), Some("p1"), Some(h)) : to \in Users, h \in {HashA, HashB}}

NextInline ==
    \/ Connect(1, NotarySender)
    \/ Authenticate(1)
    \/ Welcome(1)
    \/ \E f \in InlineFrames : Recv(1, f, "ok", "ok")
    \/ Push(1)
    \/ Ack(1)
    \/ NotaryStep
    \/ LedgerDown
    \/ LedgerUp

InlineSpec == InitNotary /\ [][NextInline]_vars

\* The three HTTP endpoints of verification.py, called by either user for
\* any message id.  User 1 has sent a message to itself, which is anchored
\* and registered, and one to user 2, whose notarization thread has not run
\* yet; the threads and the ledger run.
QueryFrame(i) == Frame(TRUE, Some(i), Some("p1"), Some(IF i = 1 THEN HashA ELSE HashB))

InitQuery ==
    /\ conn = [c \in Conns |->
                 IF c = 1 THEN [IdleConn EXCEPT !.pc = "loop", !.token = NotarySender,
                                                !.alive = TRUE]
                 ELSE IdleConn]
    /\ active = Register(<<>>, 1, 1)
    /\ out = [c \in Conns |->
                 IF c = 1
                 THEN <<ConnectedFrame(1), DeliveryFrame(1, 1, QueryFrame(1), 1),
                        SentFrame(1, 1, 1), SentFrame(2, 2, 2)>>
                 ELSE <<>>]
    /\ store = [i \in 1..2 |->
                 [NewMessage(1, QueryFrame(i), i) EXCEPT
                     !.tx = IF i = 1 THEN Some(1) ELSE None]]
    /\ tasks = <<InlineTask(2)>>
    /\ ledger = [up |-> TRUE, registered |-> {HashA}, pending |-> {}, ntx |-> 1]
    /\ ready = TRUE
    /\ log = [i \in 1..2 |->
                 [conn |-> 1, token |-> NotarySender, frame |-> QueryFrame(i),
                  po |-> "ok", so |-> "ok", res |-> "ok", online |-> i = 1,
                  pushed |-> i = 1, delivered |-> IF i = 1 THEN "yes" ELSE "none",
                  mid |-> i]]
    /\ nextra = 0
    /\ resp = NoCall
    /\ failed = {}
    /\ faults = 0
    /\ lost = {}
    /\ bc = NewBlockchain

NextQuery ==
    \/ \E u \in Users, m \in 1..GhostMessage : VerifyMessage(u, m)
    \/ \E u \in Users, m \in 1..GhostMessage : HashInfoMessage(u, m)
    \/ \E u \in Users, m \in 1..GhostMessage : ManualTrigger(u, m)
    \/ NotaryStep
    \/ LedgerDown
    \/ LedgerUp

QuerySpec == InitQuery /\ [][NextQuery]_vars

\* The notarization path with a ledger that stays reachable, a store whose
\* commits succeed, and a sweep that is run again whenever the previous run
\* has returned.  Threads, the ledger and the sweep's scheduler keep going.
SweepAgain ==
    /\ \A t \in DOMAIN tasks : tasks[t].kind # "sweep"
    /\ SweepBatch(store) # <<>>
    /\ tasks' = Append(tasks, SweepTask(store))
    /\ resp' = Call("sweep", 0, 0, "swept", None, SweepBatch(store))
    /\ UNCHANGED <<conn, active, out, store, ledger, ready, log, nextra, failed, faults, lost, bc>>

ThreadStep(t) == NLoad(t) \/ NRegister(t) \/ NSend(t) \/ NWrite(t, TRUE)

MineStep == \E p \in ledger.pending : Mine(p)

NextFair ==
    \/ Connect(1, NotarySender)
    \/ Authenticate(1)
    \/ Welcome(1)
    \/ \E f \in NotaryFrames : Recv(1, f, "ok", "ok")
    \/ Ack(1)
    \/ \E t \in 1..(MaxFrames + 1) : ThreadStep(t)
    \/ MineStep
    \/ SweepAgain

FairSpec ==
    /\ Init
    /\ [][NextFair]_vars
    /\ \A t \in 1..(MaxFrames + 1) : WF_vars(ThreadStep(t))
    /\ WF_vars(MineStep)
    /\ WF_vars(SweepAgain)

\* The sweep over a backlog.  User 1 has sent messages to user 2: the first
\* is anchored, the next n carry the same hash and have no reference (the
\* adapter does not submit a registered hash), and the last has a hash of
\* its own and no reference because its submission fell into a ledger
\* outage that is over.  The sweep runs again and again.
BacklogFrame(i, n) ==
    Frame(TRUE, Some(2), Some("p1"), Some(IF i <= n + 1 THEN HashA ELSE HashB))

BacklogInit(n) ==
    /\ conn = [c \in Conns |->
                 IF c = 1 THEN [IdleConn EXCEPT !.pc = "loop", !.token = NotarySender,
                                                !.alive = TRUE]
                 ELSE IdleConn]
    /\ active = Register(<<>>, 1, 1)
    /\ out = [c \in Conns |->
                 IF c = 1
                 THEN <<ConnectedFrame(1)>> \o [i \in 1..(n + 2) |-> SentFrame(i, 2, i)]
                 ELSE <<>>]
    /\ store = [i \in 1..(n + 2) |->
                 [NewMessage(1, BacklogFrame(i, n), i) EXCEPT
                     !.tx = IF i = 1 THEN Some(1) ELSE None]]
    /\ tasks = <<>>
    /\ ledger = [up |-> TRUE, registered |-> {HashA}, pending |-> {}, ntx |-> 1]
    /\ ready = TRUE
    /\ log = [i \in 1..(n + 2) |->
                 [conn |-> 1, token |-> NotarySender, frame |-> BacklogFrame(i, n),
                  po |-> "ok", so |-> "ok", res |-> "ok", online |-> FALSE,
                  pushed |-> FALSE, delivered |-> "none", mid |-> i]]
    /\ nextra = 0
    /\ resp = NoCall
    /\ failed = {n + 2}
    /\ faults = 1
    /\ lost = {}
    /\ bc = NewBlockchain

InitBacklog == \E n \in (MaxBacklog - 1)..MaxBacklog : BacklogInit(n)

NextBacklog ==
    \/ SweepAgain
    \/ ThreadStep(1)
    \/ MineStep

BacklogSpec == InitBacklog /\ [][NextBacklog]_vars

\* ===================================================================== claims
\* What the claims call things, in terms of the inputs recorded in log.
Malformed(f) == ~f.parse \/ f.to = None \/ f.payload = None \/ f.hash = None
UnknownRecipient(f) == ~Malformed(f) /\ f.to[1] \notin Users
\* "0x" followed by 64 hexadecimal characters
HexChars ==
    {"0", "1", "2", "3", "4", "5", "6", "7", "8", "9",
     "a", "b", "c", "d", "e", "f", "A", "B", "C", "D", "E", "F"}
IsHashFormat(h) == h.pre = <<"0", "x">> /\ h.n = 64 /\ h.fill \in HexChars
\* The entry's frame passed validation and recipient lookup and was committed.
Committed(e) == e.res \in {"refresh_failed", "schedule_failed", "ok"}
\* The handler has finished with the frame of log[i] and gone back to reading.
Completed(i) ==
    \/ \E j \in DOMAIN log : j > i /\ log[j].conn = log[i].conn
    \/ /\ conn[log[i].conn].pc = "loop"
       /\ \A j \in DOMAIN log : j > i => log[j].conn # log[i].conn
HasFrame(c, type, mid) ==
    \E k \in DOMAIN out[c] : out[c][k].type = type /\ out[c][k].message_id = mid
LastEntry == log'[Len(log')]
Received(c) == Len(log') = Len(log) + 1 /\ LastEntry.conn = c

\* C1: a message is committed to the store before notarization is scheduled
\* for it, before it is pushed and before it is acknowledged: every scheduled
\* notarization, every push in flight, every pushed `message` frame and every
\* `sent` frame names a stored message; and a frame that is acknowledged has
\* its record in the store whether the recipient was online or not.
C1_PersistFirst ==
    /\ \A t \in DOMAIN tasks : \A k \in DOMAIN tasks[t].queue :
          tasks[t].queue[k] \in DOMAIN store
    /\ \A c \in Conns : conn[c].pc \in {"push", "ack"} => conn[c].mid \in DOMAIN store
    /\ \A c \in Conns : \A k \in DOMAIN out[c] :
          out[c][k].type \in {"message", "sent"} => out[c][k].message_id \in DOMAIN store
    /\ \A i \in DOMAIN log :
          (~Malformed(log[i].frame) /\ ~UnknownRecipient(log[i].frame)
             /\ Validates(log[i].frame) /\ log[i].po = "ok")
          => log[i].mid \in DOMAIN store

C1_Witness ==
    \E i \in DOMAIN log :
        /\ log[i].res = "ok"
        /\ ~log[i].online
        /\ HasFrame(log[i].conn, "sent", log[i].mid)
        /\ \E t \in DOMAIN tasks : Head(tasks[t].queue) = log[i].mid

\* C2: every frame that passes validation and lookup and whose insert
\* succeeds creates exactly one Message: the committed entries of the log and
\* the rows of the store correspond one to one, and the row has the frame's
\* payload and hash, the frame's target as receiver and the identity the
\* connection authenticated as (its token's user) as sender.
C2_OneRecordPerFrame ==
    LET acc == {i \in DOMAIN log : Committed(log[i])}
    IN  /\ Cardinality(acc) = Len(store)
        /\ \A i, j \in acc : i # j => log[i].mid # log[j].mid
        /\ \A i \in acc :
              /\ log[i].mid \in DOMAIN store
              /\ store[log[i].mid].payload = log[i].frame.payload[1]
              /\ store[log[i].mid].hash = log[i].frame.hash[1]
              /\ store[log[i].mid].receiver = log[i].frame.to[1]
              /\ store[log[i].mid].sender = log[i].token[2]
        /\ \A i \in DOMAIN log : ~Committed(log[i]) => log[i].mid = 0

C2_Witness ==
    /\ Len(store) = 2
    /\ \E i \in DOMAIN log :
          Committed(log[i]) /\ log[i].frame.to[1] # log[i].token[2]

\* C3 (as claimed): after a successful persist, once the handler has finished
\* with the frame, a push was attempted iff the recipient was registered, the
\* sender has the `sent` frame with the new id, and the record is in the
\* store with the frame's hash.
C3_PushIffOnlineAndAck ==
    \A i \in DOMAIN log :
        (Committed(log[i]) /\ Completed(i)) =>
            /\ log[i].pushed <=> log[i].online
            /\ HasFrame(log[i].conn, "sent", log[i].mid)
            /\ store[log[i].mid].hash = log[i].frame.hash[1]

\* C4 (as claimed): a transaction reference, once attached to a message, is
\* never cleared and never replaced by another value.
C4_ReferenceWrittenOnce ==
    [][\A m \in DOMAIN store : store[m].tx # None => store'[m].tx = store[m].tx]_vars

\* C5 (as claimed): with the sweep kept running and the ledger reachable and
\* registering what is submitted, every persisted message eventually has a
\* transaction reference.
C5_EventuallyAnchored ==
    \A m \in 1..MaxFrames :
        [](m \in DOMAIN store => <>(m \in DOMAIN store /\ store[m].tx # None))

\* C6: a frame that is unparseable, lacks the target, payload or hash, or
\* names an unknown recipient changes no record, schedules nothing, pushes
\* nothing, leaves the registry alone and leads to the error reply; the error
\* reply is one `error` frame on the sending connection, nothing else
\* changes, and the handler goes back to reading frames.  (A sender whose
\* connection has gone by then gets nothing: the handler ends and only its
\* own registry entry is dropped.)
C6_RejectedFrame ==
    [][\A c \in Conns :
        /\ (Received(c)
              /\ (Malformed(LastEntry.frame) \/ UnknownRecipient(LastEntry.frame)))
           => /\ store' = store /\ tasks' = tasks /\ active' = active /\ out' = out
              /\ conn'[c].pc = "err"
              /\ conn'[c].res \in {"bad_json", "invalid", "no_receiver"}
              /\ \A d \in Conns \ {c} : conn'[d] = conn[d]
        /\ (conn[c].pc = "err" /\ conn[c].res \in {"bad_json", "invalid", "no_receiver"}
              /\ conn[c].alive /\ conn'[c].pc # "err")
           => /\ Len(out'[c]) = Len(out[c]) + 1
              /\ out'[c][Len(out'[c])].type = "error"
              /\ SubSeq(out'[c], 1, Len(out[c])) = out[c]
              /\ \A d \in Conns \ {c} : out'[d] = out[d]
              /\ store' = store /\ tasks' = tasks /\ active' = active
              /\ conn'[c].pc = "loop"
        /\ (conn[c].pc = "err" /\ conn[c].res \in {"bad_json", "invalid", "no_receiver"}
              /\ ~conn[c].alive /\ conn'[c].pc # "err")
           => /\ out' = out /\ store' = store /\ tasks' = tasks
              /\ active' = Disconnect(active, ConnUser(c))
              /\ conn'[c].pc = "closed"]_vars

C6_Witness ==
    \E i, j \in DOMAIN log :
        /\ i < j
        /\ log[i].conn = log[j].conn
        /\ UnknownRecipient(log[i].frame)
        /\ log[j].res = "ok"
        /\ \E k \in DOMAIN out[log[i].conn] :
              out[log[i].conn][k] = ErrorFrame("Receiver not found")

\* C7 (as claimed): a frame whose hash is not "0x" followed by 64 hexadecimal
\* characters is answered with an error and creates no record.
C7_HashFormatEnforced ==
    \A i \in DOMAIN log :
        (~Malformed(log[i].frame) /\ ~IsHashFormat(log[i].frame.hash[1]))
        => log[i].mid = 0 /\ log[i].res \in {"invalid", "no_receiver"}

\* C8: when the insert of a frame's Message fails, that frame schedules no
\* notarization, starts no push and leads to the error reply, never to the
\* `sent` acknowledgment: the reply is one `error` frame to the sender.
C8_FailedInsert ==
    [][\A c \in Conns :
        /\ (Received(c) /\ LastEntry.po # "ok")
           => /\ tasks' = tasks /\ out' = out /\ active' = active
              /\ ~LastEntry.pushed
              /\ conn'[c].pc = "err"
              /\ conn'[c].res \in {"insert_failed", "refresh_failed"}
        /\ (conn[c].pc = "err" /\ conn[c].res \in {"insert_failed", "refresh_failed"}
              /\ conn'[c].pc # "err")
           => /\ tasks' = tasks
              /\ \A d \in Conns \ {c} : out'[d] = out[d]
              /\ \A k \in DOMAIN out'[c] : k > Len(out[c]) => out'[c][k].type = "error"
              /\ conn'[c].pc \in {"loop", "closed"}]_vars

C8_Witness ==
    \E i \in DOMAIN log :
        /\ log[i].po = "commit_fails"
        /\ log[i].online
        /\ Len(store) = 0 /\ Len(tasks) = 0
        /\ conn[log[i].conn].pc = "loop"
        /\ out[log[i].conn][Len(out[log[i].conn])].type = "error"

\* C9 (as claimed): when scheduling the notarization fails after the message
\* was persisted, the request completes normally: the push to an online
\* recipient is attempted and the sender gets the `sent` frame.
C9_ScheduleFailureTolerated ==
    \A i \in DOMAIN log :
        (log[i].so = "fails" /\ Completed(i)) =>
            /\ log[i].online => log[i].pushed
            /\ HasFrame(log[i].conn, "sent", log[i].mid)

\* C10: when the push to a registered recipient fails with a transport
\* error, send_personal_message returns False and the recipient has no
\* registry entry when it returns; the handler goes on to the `sent` reply,
\* and if the sender's own connection is still open that reply is the
\* `sent` frame for the persisted message and no `error` frame; a sender
\* whose connection has gone gets no frame at all and its handler ends.
C10_PushFailure ==
    [][\A c \in Conns :
        /\ (conn[c].pc = "push" /\ conn'[c].pc # "push" /\ ~conn[conn[c].pushTo].alive)
           => /\ conn'[c].res = "push_failed"
              /\ ~IsUserOnline(active', conn[c].target)
              /\ conn'[c].pc = "ack"
              /\ out' = out
        /\ (conn[c].pc = "ack" /\ conn[c].res = "push_failed" /\ conn[c].alive
              /\ conn'[c].pc # "ack")
           => /\ out'[c] = Append(out[c], SentFrame(conn[c].mid, conn[c].target,
                                                    store[conn[c].mid].timestamp))
              /\ conn'[c].pc = "loop"
        /\ (conn[c].pc = "ack" /\ conn[c].res = "push_failed" /\ ~conn[c].alive
              /\ conn'[c].pc # "ack")
           => /\ out' = out
              /\ conn'[c].pc = "closed"]_vars

C10_Witness ==
    \E i \in DOMAIN log :
        /\ log[i].delivered = "failed"
        /\ HasFrame(log[i].conn, "sent", log[i].mid)
        /\ ~IsUserOnline(active, log[i].frame.to[1])

\* A sweep call is a step that leaves a sweep record in resp.
SweepCalled ==
    /\ resp'.op = "sweep"
    /\ \/ resp' # resp
       \/ Len(tasks') > Len(tasks) /\ tasks'[Len(tasks')].kind = "sweep"
AllAnchored(st) == \A m \in DOMAIN st : st[m].tx # None
SweepRunning == \E t \in DOMAIN tasks : tasks[t].kind = "sweep"
\* The latest call was a sweep that began with the ledger client working and
\* no other notarize call running, nothing has failed since, and it has
\* returned.
CleanSweepDone ==
    /\ resp.op = "sweep"
    /\ resp.up /\ resp.idle /\ ready
    /\ faults = resp.faults
    /\ ~SweepRunning

\* C11: a sweep call on a store in which every message has a transaction
\* reference finds no row, starts no notarize call, submits nothing to the
\* ledger and changes no record; the same holds for every further call.
C11_SweepOfAnchoredStore ==
    [][(SweepCalled /\ AllAnchored(store))
          => /\ resp'.batch = <<>>
             /\ tasks' = tasks
             /\ ledger' = ledger
             /\ store' = store
             /\ nextra' = nextra]_vars

C11_Witness ==
    /\ Len(store) = MaxFrames
    /\ AllAnchored(store)
    /\ resp.op = "sweep"
    /\ resp.batch = <<>>
    /\ tasks = <<>>

C13_SweepRetriesEveryFailed ==
    [][SweepCalled
          => \A m \in failed :
                store[m].tx = None => \E k \in DOMAIN resp'.batch : resp'.batch[k] = m]_vars

\* The frames of the log that were committed, in arrival order.
CommittedEntries == {i \in DOMAIN log : Committed(log[i])}
SameContent(f, g) == f.to = g.to /\ f.payload = g.payload /\ f.hash = g.hash

\* C15: every committed frame has a Message record of its own, also when an
\* earlier frame had the same target, payload and hash: the ids of two
\* committed frames differ, there are as many records as committed frames,
\* and the id given to a new record was not in the store before and no id
\* leaves the store.
C15_NoDeduplication ==
    /\ [](/\ \A i, j \in CommittedEntries :
                i # j => /\ log[i].mid # log[j].mid
                         /\ log[i].mid \in DOMAIN store
                         /\ log[j].mid \in DOMAIN store
           /\ Len(store) = Cardinality(CommittedEntries))
    /\ [][/\ DOMAIN store \subseteq DOMAIN store'
           /\ \A c \in Conns :
                 (Received(c) /\ Committed(LastEntry))
                    => /\ LastEntry.mid \notin DOMAIN store
                       /\ LastEntry.mid \in DOMAIN store']_vars

C15_Witness ==
    \E i, j \in CommittedEntries :
       /\ i < j
       /\ log[i].conn = log[j].conn
       /\ SameContent(log[i].frame, log[j].frame)
       /\ log[i].mid # log[j].mid
       /\ store[log[i].mid].hash = store[log[j].mid].hash

\* C16: no step of delivery, notarize, sweep or manual trigger removes a
\* Message or changes its sender, receiver, payload, hash or timestamp; a
\* step changes at most the transaction reference of a stored Message.
C16_OnlyReferenceChanges ==
    [][\A m \in DOMAIN store :
          /\ m \in DOMAIN store'
          /\ [store'[m] EXCEPT !.tx = store[m].tx] = store[m]]_vars

C16_Witness ==
    /\ Len(store) = MaxFrames
    /\ \E m \in DOMAIN store : store[m].tx # None
    /\ resp.op \in {"trigger", "sweep"}
    /\ nextra > 0
    /\ tasks = <<>>

\* C17: the registry maps an identity to one channel.  Registering channel c
\* for identity u makes c the entry of u, whatever entry u had, and leaves
\* the other identities' entries alone; a push called for u takes the
\* channel the registry holds for u at that moment and writes to no other
\* channel.
C17_OneChannelPerIdentity ==
    /\ [](\A u \in DOMAIN active : active[u] \in Conns)
    /\ [][\A c \in Conns :
           /\ (conn[c].pc = "accepted" /\ conn'[c].pc = "welcome")
              => /\ DOMAIN active' = DOMAIN active \cup {ConnUser(c)}
                 /\ active'[ConnUser(c)] = c
                 /\ \A v \in DOMAIN active \ {ConnUser(c)} : active'[v] = active[v]
           /\ (Received(c) /\ LastEntry.pushed)
              => /\ conn'[c].pc = "push"
                 /\ conn'[c].pushTo = active[LastEntry.frame.to[1]]
           /\ (conn[c].pc = "push" /\ conn'[c].pc # "push")
              => \A d \in Conns \ {conn[c].pushTo} : out'[d] = out[d]]_vars

\* Identity u registered channel 1, then channel 2; a push for u went to
\* channel 2 while channel 1 was still open.
C17_Witness ==
    \E u \in Users :
       /\ u \in DOMAIN active /\ active[u] = 2
       /\ conn[1].pc = "loop" /\ conn[1].alive /\ conn[1].token = <<"valid", u>>
       /\ \E k \in DOMAIN out[2] : out[2][k].type = "message"
       /\ \A k \in DOMAIN out[1] : out[1][k].type # "message"

\* A credential that is present, valid and names an existing user.
Resolves(token) == Len(token) = 2 /\ token[1] = "valid" /\ token[2] \in Users
Open(c) == conn[c].pc \in {"welcome", "loop", "push", "ack", "err"}

\* C18: when the handler has looked at the credential of connection c, a
\* missing or invalid credential (or one naming no existing user) leaves the
\* registry as it was and the connection closed with no `connected` frame
\* and no frame processed, then and for ever; any other credential registers
\* c under the user the credential names.  Every frame processed came from
\* a connection with a resolving credential, and an open registered
\* connection is registered under the user of its credential.
C18_OnlyAuthenticatedRegistered ==
    /\ [][\A c \in Conns :
           /\ (conn[c].pc = "accepted" /\ conn'[c].pc # "accepted"
                  /\ ~Resolves(conn[c].token))
              => /\ conn'[c].pc = "rejected"
                 /\ active' = active
                 /\ log' = log /\ store' = store /\ tasks' = tasks
           /\ (conn[c].pc = "accepted" /\ conn'[c].pc # "accepted"
                  /\ Resolves(conn[c].token))
              => /\ conn'[c].pc = "welcome"
                 /\ active'[conn[c].token[2]] = c
                 /\ out' = out
           /\ conn[c].pc = "rejected" => conn'[c] = conn[c] /\ out'[c] = out[c]]_vars
    /\ [](\A c \in Conns :
            conn[c].pc = "rejected"
               => /\ \A u \in DOMAIN active : active[u] # c
                  /\ \A k \in DOMAIN out[c] : out[c][k].type = "error"
                  /\ \A i \in DOMAIN log : log[i].conn # c)
    /\ [](\A i \in DOMAIN log : Resolves(log[i].token))
    /\ [](\A u \in DOMAIN active :
            Open(active[u]) => conn[active[u]].token = <<"valid", u>>)

\* One connection was turned away for its credential and another is
\* registered and reading frames.
C18_Witness ==
    \E c, d \in Conns :
       /\ conn[c].pc = "rejected" /\ out[c] = <<>>
       /\ conn[d].pc = "loop"
       /\ ConnUser(d) \in DOMAIN active /\ active[ConnUser(d)] = d
       /\ \E k \in DOMAIN out[d] : out[d][k].type = "connected"

\* C19: every `message` frame written to a channel carries the id of a
\* stored Message together with that record's sender, payload, hash and
\* timestamp (as text); every `sent` frame carries the id of a stored
\* Message with that record's receiver and timestamp; a frame that was pushed
\* is the `message` frame with its record's id, and the `sent` frame on the
\* sender's connection has that same id and timestamp.
C19_FramesCarryRecord ==
    /\ \A c \in Conns : \A k \in DOMAIN out[c] :
          /\ out[c][k].type = "message"
             => /\ out[c][k].message_id \in DOMAIN store
                /\ LET r == store[out[c][k].message_id]
                   IN  /\ out[c][k].from_user_id = r.sender
                       /\ out[c][k].payload = r.payload
                       /\ out[c][k].message_hash = r.hash
                       /\ out[c][k].timestamp = IsoFormat(r.timestamp)
          /\ out[c][k].type = "sent"
             => /\ out[c][k].message_id \in DOMAIN store
                /\ LET r == store[out[c][k].message_id]
                   IN  /\ out[c][k].to_user_id = r.receiver
                       /\ out[c][k].timestamp = IsoFormat(r.timestamp)
    /\ \A i \in DOMAIN log :
          /\ log[i].delivered = "yes"
             => \E d \in Conns : HasFrame(d, "message", log[i].mid)
          /\ \A k \in DOMAIN out[log[i].conn] :
                (out[log[i].conn][k].type = "sent" /\ log[i].delivered = "yes"
                   /\ out[log[i].conn][k].message_id = log[i].mid)
                => \E d \in Conns : \E j \in DOMAIN out[d] :
                      /\ out[d][j].type = "message"
                      /\ out[d][j].message_id = out[log[i].conn][k].message_id
                      /\ out[d][j].timestamp = out[log[i].conn][k].timestamp

\* A message was pushed to its recipient's channel and acknowledged to its
\* sender on another channel.
C19_Witness ==
    \E i \in DOMAIN log : \E d \in Conns \ {log[i].conn} :
       /\ log[i].delivered = "yes"
       /\ HasFrame(d, "message", log[i].mid)
       /\ HasFrame(log[i].conn, "sent", log[i].mid)

\* A trigger call is a step that leaves a trigger record in resp.
TriggerCalled ==
    /\ resp'.op = "trigger"
    /\ \/ resp' # resp
       \/ Len(tasks') > Len(tasks) /\ tasks'[Len(tasks')].kind = "manual"

\* C20: a manual trigger for a message that has a transaction reference
\* starts no notarize call, submits nothing and changes no record; called
\* by the message's sender it answers "already notarized" with that
\* reference (any other user is refused and gets no reference).
C20_TriggerOnAnchored ==
    [][(TriggerCalled /\ resp'.mid \in DOMAIN store /\ store[resp'.mid].tx # None)
          => /\ tasks' = tasks
             /\ ledger' = ledger
             /\ store' = store
             /\ nextra' = nextra
             /\ resp'.user = store[resp'.mid].sender
                => /\ resp'.status = "already_notarized"
                   /\ resp'.tx = store[resp'.mid].tx
             /\ resp'.user # store[resp'.mid].sender
                => /\ resp'.status = "forbidden"
                   /\ resp'.tx = None]_vars

C20_Witness ==
    /\ resp.op = "trigger"
    /\ resp.status = "already_notarized"
    /\ resp.mid \in DOMAIN store
    /\ resp.tx # None
    /\ resp.tx = store[resp.mid].tx
    /\ resp.user = store[resp.mid].sender

\* C21: when a frame is read from connection c the handling of every
\* earlier frame of c is over (no push or reply of c is pending), so for two
\* frames of one connection, in arrival order: the earlier one's push (if
\* any) has returned and its `sent` reply (if it got that far) is written
\* before the later one is read, message ids grow with arrival, and the
\* `sent` replies on a connection carry growing message ids.
C21_PerConnectionOrder ==
    /\ [][\A c \in Conns : Received(c) => conn[c].pc = "loop"]_vars
    /\ [](\A i, j \in DOMAIN log :
            (i < j /\ log[i].conn = log[j].conn)
               => /\ log[i].pushed => log[i].delivered # "none"
                  /\ log[i].res = "ok" => HasFrame(log[i].conn, "sent", log[i].mid)
                  /\ (Committed(log[i]) /\ Committed(log[j])) => log[i].mid < log[j].mid)
    /\ [](\A c \in Conns : \A k, l \in DOMAIN out[c] :
            (k < l /\ out[c][k].type = "sent" /\ out[c][l].type = "sent")
               => out[c][k].message_id < out[c][l].message_id)

\* One connection sent two frames; both were stored and acknowledged.
C21_Witness ==
    \E i, j \in DOMAIN log :
       /\ i < j /\ log[i].conn = log[j].conn
       /\ log[i].pushed
       /\ HasFrame(log[i].conn, "sent", log[i].mid)
       /\ HasFrame(log[j].conn, "sent", log[j].mid)

\* Where the `message` frame of record mid stands on channel d.
FramePos(d, mid) ==
    CHOOSE k \in DOMAIN out[d] : out[d][k].type = "message" /\ out[d][k].message_id = mid

\* C22 (as claimed): two pushes for the same identity that were both written
\* to a channel stand on it in the order of their calls.  The model cannot
\* settle this: a push is called in Recv and written in Push, and nothing in
\* send_personal_message orders two calls that are both waiting in
\* websocket.send_json; whether the write can be delayed past a later call's
\* write is decided inside send_json, which is not part of the source.
C22_PushCallOrder ==
    \A i, j \in DOMAIN log : \A d \in Conns :
       (i < j /\ log[i].delivered = "yes" /\ log[j].delivered = "yes"
          /\ log[i].frame.to = log[j].frame.to
          /\ HasFrame(d, "message", log[i].mid) /\ HasFrame(d, "message", log[j].mid))
       => FramePos(d, log[i].mid) < FramePos(d, log[j].mid)

\* ------------------------------------------------------ blockchain claims
\* Calls of add_transaction and mine_pending_transactions on a new
\* Blockchain, with every kind of amount.
NextChain ==
    \/ \E sender, recipient \in Addresses, amount \in Amounts :
          AddTransaction(sender, recipient, amount)
    \/ \E miner_address \in Addresses : MinePendingTransactions(miner_address)

ChainSpec == Init /\ [][NextChain]_vars

\* The same calls, and writes to the fields of blocks already in the chain.
NextTamper ==
    \/ NextChain
    \/ \E i \in 1..MaxCalls, field \in TamperFields, j \in 1..MaxCalls,
          v \in {25, 50, MiningReward} : Tamper(i, field, j, v)

TamperSpec == Init /\ [][NextTamper]_vars

\* C23: after any sequence of add_transaction and mine_pending_transactions
\* calls on a new Blockchain, is_chain_valid() returns True.
C23_BuiltChainIsValid == IsChainValid(bc.chain)

\* Two blocks were mined after the genesis block.
C23_Witness == Len(bc.chain) = 3 /\ IsChainValid(bc.chain)

\* The blocks whose data differ from what was mined.
Altered == {i \in 1..Len(bc.chain) : bc.chain[i] # bc.mined[i]}

\* C24 (as claimed): when the data of any block in the chain has been altered
\* without mining the block again, is_chain_valid() returns False.
C24_TamperingDetected == Altered # {} => ~IsChainValid(bc.chain)

\* What holds instead: altered data of a block after the genesis block is
\* detected.
C24_TamperingAfterGenesisDetected ==
    (Altered \ {1}) # {} => ~IsChainValid(bc.chain)

C24_Witness == (Altered \ {1}) # {} /\ Len(bc.chain) >= 3

\* A step that is a call of the named method.
Called(op) == bc'.calls = bc.calls + 1 /\ bc'.last.op = op

\* C25: add_transaction with amount <= 0 returns False and leaves the
\* pending list unchanged; with amount > 0 it returns True and appends
\* exactly one transaction with that sender, recipient and amount at the end.
C25_AddTransaction ==
    [][Called("add_transaction") =>
         /\ bc'.chain = bc.chain
         /\ IF bc'.last.amount <= 0
            THEN bc'.last.ret = FALSE /\ bc'.pending = bc.pending
            ELSE /\ bc'.last.ret = TRUE
                 /\ Len(bc'.pending) = Len(bc.pending) + 1
                 /\ SubSeq(bc'.pending, 1, Len(bc.pending)) = bc.pending
                 /\ LET tx == bc'.pending[Len(bc'.pending)]
                    IN  /\ tx.sender = bc'.last.sender
                        /\ tx.recipient = bc'.last.recipient
                        /\ tx.amount = bc'.last.amount]_vars

\* Both outcomes have happened: a rejected call after an accepted one.
C25_Witness ==
    /\ bc.last.op = "add_transaction" /\ bc.last.ret = FALSE
    /\ bc.last.amount <= 0
    /\ Len(bc.pending) >= 2

\* C26: mine_pending_transactions returns False and leaves chain and pending
\* list unchanged when nothing is pending; otherwise it returns True and the
\* chain grows by exactly one block.
C26_MinePending ==
    [][Called("mine_pending_transactions") =>
         IF bc.pending = <<>>
         THEN bc'.last.ret = FALSE /\ bc'.chain = bc.chain /\ bc'.pending = bc.pending
         ELSE /\ bc'.last.ret = TRUE
              /\ Len(bc'.chain) = Len(bc.chain) + 1
              /\ SubSeq(bc'.chain, 1, Len(bc.chain)) = bc.chain]_vars

\* A block was mined from a pending list that earlier calls had built.
C26_Witness ==
    /\ bc.last.op = "mine_pending_transactions" /\ bc.last.ret = TRUE
    /\ Len(bc.chain) = 2 /\ bc.calls >= 3

\* All transactions of the mined blocks and the pending list.
RECURSIVE ChainTransactions(_)
ChainTransactions(chain) ==
    IF chain = <<>> THEN <<>>
    ELSE Head(chain).transactions \o ChainTransactions(Tail(chain))

RECURSIVE SumWhere(_, _, _)
SumWhere(txs, field, address) ==
    IF txs = <<>> THEN 0
    ELSE (IF Head(txs)[field] = address THEN Head(txs).amount ELSE 0)
         + SumWhere(Tail(txs), field, address)

ReceivedBy(address) ==
    SumWhere(ChainTransactions(bc.chain) \o bc.pending, "recipient", address)

SentBy(address) ==
    SumWhere(ChainTransactions(bc.chain) \o bc.pending, "sender", address)

\* C27: get_balance(address) is the amounts received minus the amounts sent
\* by the address over the mined blocks and the pending list, so a mining
\* reward counts for the miner while it is still pending.
C27_BalanceIncludesPending ==
    \A a \in Addresses \cup {"network"} :
        GetBalance(bc.chain, bc.pending, a) = ReceivedBy(a) - SentBy(a)

\* A miner's reward is pending and is all of the miner's balance.
C27_Witness ==
    /\ bc.pending = <<RewardTransaction("Miner1", bc.clock - 1)>>
    /\ ChainBalance(bc.chain, "Miner1") = 0
    /\ GetBalance(bc.chain, bc.pending, "Miner1") = MiningReward

\* -------------------------------------------------------- in-flight claims
\* The notarize calls for message m that have found the reference absent and
\* do not yet have the result of register_hash.
InFlight(m) ==
    {t \in DOMAIN tasks : tasks[t].pc \in {"register", "send"} /\ Head(tasks[t].queue) = m}

\* C28 (as claimed): for each message id at most one notarize call is between
\* its check of the reference and the result of its ledger submission.
C28_OneInFlightPerMessage ==
    \A m \in DOMAIN store : Cardinality(InFlight(m)) <= 1

\* What holds instead: the calls in flight for one message are at most the
\* inline attempt and the manual triggers and sweeps started since.
C28_InFlightBounded ==
    \A m \in DOMAIN store : Cardinality(InFlight(m)) <= 1 + nextra

\* ---------------------------------------------------------- registry claims
\* Handler c's call of send_personal_message fails in this step.
PushFails(c) ==
    /\ conn[c].pc = "push"
    /\ conn'[c].pc = "ack"
    /\ conn'[c].res = "push_failed"

\* C29 (as claimed): when a push fails and another channel has been
\* registered for the identity since the push began, the eviction leaves the
\* newly registered channel in the registry.
C29_EvictionRemovesOnlyFailedChannel ==
    [][\A c \in Conns :
          (/\ PushFails(c)
           /\ conn[c].target \in DOMAIN active
           /\ active[conn[c].target] # conn[c].pushTo)
          => /\ conn[c].target \in DOMAIN active'
             /\ active'[conn[c].target] = active[conn[c].target]]_vars

\* What holds instead: a failed push leaves the identity without an entry,
\* whichever channel the entry held.
C29_EvictionRemovesIdentity ==
    [][\A c \in Conns : PushFails(c) => conn[c].target \notin DOMAIN active']_vars

\* The handler of connection c has returned.
Terminated(c) == conn[c].pc \in {"rejected", "closed"}

\* C30 (as claimed): when the handler of a connection has terminated, the
\* registry maps no identity to that connection's channel.
C30_TerminatedNotRegistered ==
    \A c \in Conns : Terminated(c) => \A u \in DOMAIN active : active[u] # c

\* What holds instead: a handler that terminates from its message loop
\* leaves no entry for its channel.
C30_LoopExitUnregisters ==
    [][\A c \in Conns :
          (conn[c].pc \in {"loop", "push", "ack", "err"} /\ Terminated(c)')
          => \A u \in DOMAIN active' : active'[u] # c]_vars

\* The handler of connection c returns in this step.
Terminates(c) == Open(c) /\ Terminated(c)'

\* C31 (as claimed): when the handler of a channel terminates after another
\* channel has been registered for its identity, the identity stays
\* registered with the other channel.
C31_ReconnectSurvivesOldHandler ==
    [][\A c \in Conns :
          (/\ Terminates(c)
           /\ ConnUser(c) \in DOMAIN active
           /\ active[ConnUser(c)] # c
           /\ Open(active[ConnUser(c)]))
          => /\ IsUserOnline(active', ConnUser(c))
             /\ active'[ConnUser(c)] = active[ConnUser(c)]]_vars

\* What holds instead: a handler that terminates from its message loop
\* leaves its identity without an entry, whichever channel the entry held.
C31_LoopExitRemovesIdentity ==
    [][\A c \in Conns :
          (conn[c].pc \in {"loop", "push", "ack", "err"} /\ Terminated(c)')
          => ~IsUserOnline(active', ConnUser(c))]_vars

\* ------------------------------------------------------ notarization claims
\* C32 (as claimed): a reference whose commit fails leaves the records as
\* they were, and once a later sweep has run from start to end with the
\* ledger client succeeding, every message of its batch that had such a
\* failed commit has a transaction reference.
C32_LostReferenceRecovered ==
    /\ [][lost' # lost => store' = store]_vars
    /\ [](CleanSweepDone
            => \A k \in DOMAIN resp.batch :
                  resp.batch[k] \in lost => store[resp.batch[k]].tx # None)

\* What holds instead: the sweep recovers such a message when its hash is not
\* yet registered on the ledger at the time the sweep reaches it.
C32_RecoveredUnlessRegistered ==
    /\ [][lost' # lost => store' = store]_vars
    /\ [](CleanSweepDone
            => \A k \in DOMAIN resp.batch :
                  (resp.batch[k] \in lost /\ store[resp.batch[k]].hash \notin ledger.registered)
                  => store[resp.batch[k]].tx # None)

\* A notarize call fails in this step: the ledger does not take its
\* submission, or the commit of its reference raises.
NotarizeFails == failed' # failed \/ lost' # lost

\* Task t is the call that failed.
FailedIn(t) ==
    /\ tasks[t].pc \in {"send", "write"}
    /\ Head(tasks[t].queue) \in (failed' \ failed) \cup (lost' \ lost)

\* Task t has returned to a caller that has nothing more to do.
Returned(t) ==
    /\ Len(tasks') = Len(tasks) - 1
    /\ \A x \in DOMAIN tasks' : tasks'[x] = tasks[IF x < t THEN x ELSE x + 1]

\* Task t has returned to the sweep's loop, which is at its next message.
MovedOn(t) ==
    /\ Len(tasks') = Len(tasks)
    /\ \A x \in DOMAIN tasks : x # t => tasks'[x] = tasks[x]
    /\ tasks'[t].kind = tasks[t].kind
    /\ tasks'[t].pc = "load"
    /\ tasks'[t].queue = Tail(tasks[t].queue)

\* C33: a notarize call that fails returns to its caller without raising:
\* the records stay as they were (no reference, nothing that marks the
\* failure), a sweep goes on with the next message of its batch, and a call
\* that has no further message ends.
C33_NotarizeNeverRaises ==
    [][NotarizeFails
          => /\ store' = store
             /\ \E t \in DOMAIN tasks :
                   /\ FailedIn(t)
                   /\ IF Len(tasks[t].queue) > 1 THEN MovedOn(t) ELSE Returned(t)]_vars

\* A sweep over messages 1 and 2 began with the ledger reachable; the ledger
\* went away, the submission for message 1 failed, and the sweep is at
\* message 2.
C33_Witness ==
    /\ resp.op = "sweep" /\ resp.batch = <<1, 2>> /\ resp.up
    /\ ~ledger.up
    /\ 1 \in failed /\ store[1].tx = None
    /\ \E t \in DOMAIN tasks : tasks[t].kind = "sweep" /\ tasks[t].queue = <<2>>

\* Task t takes a step.
Acted(t) ==
    \/ Returned(t)
    \/ /\ Len(tasks') = Len(tasks)
       /\ \A x \in DOMAIN tasks : x # t => tasks'[x] = tasks[x]
       /\ tasks'[t] # tasks[t]

\* The row of message m as the session of task t has it.
Loaded(t, m) == IF tasks[t].cached THEN [store[m] EXCEPT !.tx = None] ELSE store[m]

C35_LedgerFailureNotSurfaced ==
    /\ [][NotarizeFails => out' = out /\ conn' = conn]_vars
    /\ [](\A c \in Conns : \A k \in DOMAIN out[c] : out[c][k].type # "error")
    /\ [](\A c \in Conns :
            /\ conn[c].pc = "push" => ENABLED Push(c)
            /\ conn[c].pc = "ack" => ENABLED Ack(c))

\* The sender has the `message` and `sent` frames of message 1, whose
\* submission failed, and the `sent` frame of message 2, whose notarization
\* is still under way.
C35_Witness ==
    /\ HasFrame(1, "message", 1) /\ HasFrame(1, "sent", 1)
    /\ 1 \in failed /\ store[1].tx = None
    /\ HasFrame(1, "sent", 2)
    /\ InFlight(2) # {}

\* The ledger client has its contract and the ledger answers that h is
\* registered.
ReportsRegistered(h) == ready /\ ledger.up /\ h \in ledger.registered

\* C36: register_hash called for a hash that the ledger reports as registered
\* sends no transaction and returns no reference: the ledger and the records
\* stay as they are and the notarize call returns.
C36_NoSubmissionForRegistered ==
    [][\A t \in DOMAIN tasks :
          (/\ tasks[t].pc = "register"
           /\ Acted(t)
           /\ ReportsRegistered(tasks[t].h[1]))
          => /\ ledger' = ledger
             /\ store' = store
             /\ IF Len(tasks[t].queue) > 1 THEN MovedOn(t) ELSE Returned(t)]_vars

\* Two messages have the same hash; one transaction was sent and mined and
\* nothing failed.  The call for the message without a reference found the
\* hash registered and has returned.
C36_Witness ==
    /\ Len(store) = 2 /\ store[1].hash = store[2].hash
    /\ \E m \in 1..2 : store[m].tx # None /\ store[3 - m].tx = None
    /\ ReportsRegistered(store[1].hash)
    /\ tasks = <<>>
    /\ ledger.ntx = 1 /\ faults = 0

\* ------------------------------------------------------------ lookup claims
\* The latest call was a lookup that asked the ledger client while the
\* client had no contract or the ledger was unreachable.
AskedUnavailable(op) ==
    /\ resp.op = op
    /\ resp.asked
    /\ ~ready \/ ~resp.up

\* C37 (as claimed): a verification made while the ledger is unreachable
\* does not answer as it does for a hash that is not registered.
C37_UnavailableDistinguished ==
    AskedUnavailable("verify") => ~(resp.code = 200 /\ resp.answer = Some(FALSE))

\* What holds instead: such a verification answers 200 with verified false.
C37_UnavailableAnswersFalse ==
    AskedUnavailable("verify") => resp.code = 200 /\ resp.answer = Some(FALSE)

\* The call recorded in r was refused with 403.
Refused(r) ==
    \/ r.op = "trigger" /\ r.status = "forbidden"
    \/ r.op \in {"verify", "hash_info"} /\ r.code = 403

\* The caller of r is the sender or the receiver of the message r names.
Participant(r) == r.user \in {store[r.mid].sender, store[r.mid].receiver}

\* C38: the trigger is accepted from the sender of the message only, the
\* verify and hash-info lookups from its sender or receiver only; any other
\* user is refused with 403, and a refused call starts no notarize call,
\* asks the ledger nothing and changes neither ledger nor records.
C38_OnlyParticipants ==
    /\ [](resp.op = "trigger" /\ resp.mid \in DOMAIN store
            => (resp.user # store[resp.mid].sender <=> resp.status = "forbidden"))
    /\ [](resp.op \in {"verify", "hash_info"} /\ resp.mid \in DOMAIN store
            => /\ ~Participant(resp) <=> resp.code = 403
               /\ resp.code = 403 => ~resp.asked)
    /\ [][(resp' # resp /\ Refused(resp'))
            => tasks' = tasks /\ ledger' = ledger /\ store' = store]_vars

\* User 2 asked for the verification of message 1, which user 1 sent to
\* itself, and was refused; user 1 has triggered the notarization of its
\* message 2.
C38_Witness ==
    /\ resp.op = "verify" /\ resp.user = 2 /\ resp.mid = 1 /\ resp.code = 403
    /\ \E t \in DOMAIN tasks : tasks[t].kind = "manual" /\ tasks[t].queue = <<2>>

\* C39 (as claimed): a hash-info lookup for which the ledger client has no
\* answer is answered with 503, and one for which it has an answer with 200.
C39_UnavailableIs503 ==
    (resp.op = "hash_info" /\ resp.asked)
       => resp.code = (IF AskedUnavailable("hash_info") THEN 503 ELSE 200)

\* What holds instead: such a lookup is answered with 500.
C39_UnavailableIs500 ==
    (resp.op = "hash_info" /\ resp.asked)
       => resp.code = (IF AskedUnavailable("hash_info") THEN 500 ELSE 200)

\* ------------------------------------------------------------- mined block
\* C40: the block appended by mine_pending_transactions has the previous
\* length of the chain as index, the hash of the previous last block as
\* previous_hash, a hash with `difficulty` leading zeros and exactly the
\* transactions that were pending; afterwards the pending list is one
\* reward transaction from "network" to the miner for mining_reward.
C40_MinedBlock ==
    [][(Called("mine_pending_transactions") /\ bc.pending # <<>>)
          => /\ Len(bc'.chain) = Len(bc.chain) + 1
             /\ LET block == bc'.chain[Len(bc'.chain)]
                IN  /\ block.index = Len(bc.chain)
                    /\ block.previous_hash = bc.chain[Len(bc.chain)].hash
                    /\ block.hash.lead >= Difficulty
                    /\ block.transactions = bc.pending
             /\ Len(bc'.pending) = 1
             /\ bc'.pending[1].sender = "network"
             /\ bc'.pending[1].recipient = bc'.last.recipient
             /\ bc'.pending[1].amount = MiningReward]_vars

\* A block with two transactions was mined by Miner1 on top of the genesis
\* block.
C40_Witness ==
    /\ bc.last.op = "mine_pending_transactions" /\ bc.last.ret
    /\ bc.last.recipient = "Miner1"
    /\ Len(bc.chain) = 2
    /\ Len(bc.chain[2].transactions) = 2
    /\ Len(bc.pending) = 1 /\ bc.pending[1].recipient = "Miner1"

====
